---- MODULE Spec2Model ----
(***************************************************************************)
(* Model of bin/diff.py: MatList.__init__ (the manifest parser) and        *)
(* MatList.compare (the replay of the manifest against two directories).   *)
(*                                                                         *)
(* Strings are sequences of one-character strings, so that strip(),        *)
(* line[0], line[1:] and name + ext are computed as Python computes them.  *)
(* Matrix values are integers counting units of 0.0005, so that the        *)
(* thresholds 0.001 and 10.0 of compare are the integers 2 and 20000 and   *)
(* an uint8 value k is 2000 * k.                                           *)
(***************************************************************************)
EXTENDS Integers, Sequences, FiniteSets, TLC

VARIABLES
    pc,         \* "open", "lines", "parsed" (__init__); "run", "done", "raised" (compare)
    lines,      \* the lines read from lists.txt so far, first line included
    ext,        \* self.ext
    flow,       \* self.flow
    i,          \* position of the for loop of compare in self.flow (1-based)
    scopes,     \* the local list scopes of compare
    out,        \* the lines printed on standard output, in order
    dirs,       \* the directories created by os.makedirs
    artifacts,  \* the files written through cv2.FileStorage(..., WRITE)
    last        \* what the most recent SAVE_MAT action did (files tested, loaded, d)

vars == <<pc, lines, ext, flow, i, scopes, out, dirs, artifacts, last>>

(***************************************************************************)
(* Bounds of the model.                                                    *)
(***************************************************************************)
MaxFlow == 3    \* actions in self.flow when compare starts
MaxTermFlow == 2    \* the same, where termination is checked
MaxLen == 3     \* elements of a flattened matrix
MaxLines == 2   \* lines of lists.txt after the extension line
MaxPad == 1     \* whitespace characters before the body of a line

(***************************************************************************)
(* Program constants.                                                      *)
(***************************************************************************)
ENTER_SCOPE == 0
EXIT_SCOPE == 1
SAVE_MAT == 2
IdenticalThreshold == 2     \* 0.001, in units of 0.0005
MajorThreshold == 20000     \* 10.0, in units of 0.0005
U8Modulus == 512000         \* 256, in units of 0.0005: numpy uint8 arithmetic wraps

(***************************************************************************)
(* Small helpers on sequences.                                             *)
(***************************************************************************)
Front(s) == SubSeq(s, 1, Len(s) - 1)

RECURSIVE Sum(_)
Sum(s) == IF s = <<>> THEN 0 ELSE Head(s) + Sum(Tail(s))

Abs(x) == IF x < 0 THEN -x ELSE x

SeqsUpTo(S, n) == UNION {[1..k -> S] : k \in 0..n}

(***************************************************************************)
(* Python values that the code passes as a file name: a str, or the tuple  *)
(* that a trailing comma builds.                                           *)
(***************************************************************************)
PyStr(parts) == [type |-> "str", val |-> parts]
PyTuple1(x) == [type |-> "tuple", val |-> <<x>>]

\* os.path.join(a, *p) for components without separator: the component list
PathJoin(parts) == PyStr(parts)

\* os.path.isfile / cv2.FileStorage accept a str only
\* cv2.FileStorage(filename, flags) raises when filename is not a str
FileStorageAccepts(filename) == filename.type = "str"

(***************************************************************************)
(* Matrices.  A loaded and flattened matrix is [dt, v]: dt its numpy dtype *)
(* and v its elements.  LoadFail stands for a file that exists and that    *)
(* load_mat(...).flatten() raises on (unreadable, or no matrix node).      *)
(***************************************************************************)
Vals == {0, 1, 10000}       \* 0, 0.0005 and 5.0

\* np.full(n, x): the model's matrices have all their elements equal
Full(n, x) == [k \in 1..n |-> x]

LoadFail == [dt |-> "none", v |-> <<>>]

\* what the file under the first root holds: zeros, or the uint8 value 5
Mats1 == {[dt |-> "f64", v |-> Full(n, 0)] : n \in 1..MaxLen}
         \cup {[dt |-> "u8", v |-> Full(1, 10000)]}

\* what the file under the second root holds
Mats2 == {[dt |-> "f64", v |-> Full(n, x)] : n \in 1..MaxLen, x \in Vals}
         \cup {[dt |-> "u8", v |-> Full(1, 0)]}

LoadResults1 == Mats1 \cup {LoadFail}
LoadResults2 == Mats2 \cup {LoadFail}

\* numpy broadcasting of two 1-D shapes (n1,) and (n2,)
Broadcastable(n1, n2) == n1 = n2 \/ n1 = 1 \/ n2 = 1

BroadcastLen(n1, n2) == IF n1 = 1 THEN n2 ELSE n1

\* element k of a 1-D array broadcast to a longer shape
At(a, k) == IF Len(a) = 1 THEN a[1] ELSE a[k]

\* one element of m2 - m1: uint8 - uint8 stays uint8 and wraps modulo 256
SubElem(dt1, dt2, x1, x2) ==
    IF dt1 = "u8" /\ dt2 = "u8" THEN (x2 - x1) % U8Modulus ELSE x2 - x1

\* diff = np.abs(m2 - m1), defined when the shapes broadcast
AbsDiff(m1, m2) ==
    [k \in 1..BroadcastLen(Len(m1.v), Len(m2.v)) |->
        Abs(SubElem(m1.dt, m2.dt, At(m1.v, k), At(m2.v, k)))]

\* d = np.linalg.norm(diff, ord=1)
Norm1(diff) == Sum([k \in 1..Len(diff) |-> Abs(diff[k])])

(***************************************************************************)
(* Text.  " " stands for any whitespace character, the newline that ends a *)
(* line of the file included.                                              *)
(***************************************************************************)
RECURSIVE LStrip(_)
LStrip(s) == IF s # <<>> /\ Head(s) = " " THEN LStrip(Tail(s)) ELSE s

RECURSIVE RStrip(_)
RStrip(s) == IF s # <<>> /\ s[Len(s)] = " " THEN RStrip(Front(s)) ELSE s

\* str.strip()
Strip(s) == RStrip(LStrip(s))

(***************************************************************************)
(* The actions of self.flow.                                               *)
(***************************************************************************)
EnterAction(name) == [type |-> ENTER_SCOPE, name |-> name]
ExitAction == [type |-> EXIT_SCOPE]
SaveAction(name) == [type |-> SAVE_MAT, name |-> name]

\* the loop body without the strip() of the scope name
ParseLineKeepSpace(raw) ==
    LET line == Strip(raw)
    IN  IF Len(line) > 0
        THEN IF line[1] = "-" THEN <<ExitAction>>
             ELSE IF line[1] = "+" THEN <<EnterAction(Tail(line))>>
             ELSE <<SaveAction(Strip(line))>>
        ELSE <<>>

\* the body of the loop "for line in file": what one line appends to self.flow
ParseLine(raw) ==
    LET line == Strip(raw)
    IN  IF Len(line) > 0
        THEN IF line[1] = "-" THEN <<ExitAction>>
             ELSE IF line[1] = "+" THEN <<EnterAction(Strip(Tail(line)))>>
             ELSE <<SaveAction(Strip(line))>>
        ELSE <<>>

\* self.flow once every line of ls went through the loop
RECURSIVE ParseLines(_)
ParseLines(ls) ==
    IF ls = <<>> THEN <<>> ELSE ParseLine(Head(ls)) \o ParseLines(Tail(ls))

Pad(n) == [k \in 1..n |-> " "]

\* a body after up to MaxPad whitespace characters, with or without the
\* newline that ends the line
Padded(bodies) == {Pad(l) \o b \o Pad(r) : l \in 0..MaxPad, r \in 0..1, b \in bodies}

\* first lines of lists.txt: nothing (empty file, empty line) or an extension
ExtLines == {<<>>, <<".", "y">>, <<" ", ".", "y", " ">>}

\* other lines of lists.txt
Bodies ==
    {<<>>, <<"-">>, <<"-", "a">>, <<"+">>, <<"+", " ", "a">>, <<"a">>, <<"a", "-">>}

FileLines == Padded(Bodies)

(***************************************************************************)
(* Output lines.  at is the position in self.flow of the action that       *)
(* printed the line; depth is the number of "    " paddings at its start.  *)
(***************************************************************************)
NoPaths == <<>>

ScopeLine(at, depth, name) ==
    [at |-> at, kind |-> "scope", color |-> "white", depth |-> depth,
     name |-> name, fields |-> {}, paths |-> NoPaths]

CompareLine(at, depth, name, color, fields) ==
    [at |-> at, kind |-> "compare", color |-> color, depth |-> depth,
     name |-> name, fields |-> fields, paths |-> NoPaths]

ErrorLine(at, relpath) ==
    [at |-> at, kind |-> "error", color |-> "none", depth |-> 0,
     name |-> <<>>, fields |-> {"e"}, paths |-> <<relpath>>]

MissingLine(at, path1, path2) ==
    [at |-> at, kind |-> "missing", color |-> "none", depth |-> 0,
     name |-> <<>>, fields |-> {}, paths |-> <<path1, path2>>]

IdenticalFields == {"name", "d"}
DifferentFields == {"name", "d", "min", "max", "avg", "median", "std"}

(***************************************************************************)
(* The try block of compare for one SAVE_MAT action whose two files exist. *)
(* r1 and r2 are what load_mat(path).flatten() gives for each file.        *)
(* The result tells what was printed, created and written before the block *)
(* ended, normally or by an exception.                                     *)
(***************************************************************************)
TryResult(raised, l1, l2, d, cls, printed, made, written) ==
    [raised |-> raised, l1 |-> l1, l2 |-> l2, d |-> d, cls |-> cls,
     printed |-> printed, made |-> made, written |-> written]

Classify(d) ==
    IF d < IdenticalThreshold THEN "green"
    ELSE IF d < MajorThreshold THEN "yellow" ELSE "red"

\* lines 89-90: os.path.join(tmp_dir, *scopes, mat_name + self.ext)
EntryPath(root, stack, mat_name, fext) ==
    PathJoin(<<root>> \o stack \o <<mat_name \o fext>>)

\* the relative path without the scopes
RelPathNoScopes(stack, mat_name, fext) == PathJoin(<<mat_name \o fext>>)

\* line 140: os.path.join(*scopes, mat_name + self.ext)
RelPath(stack, mat_name, fext) == PathJoin(stack \o <<mat_name \o fext>>)

\* line 130: os.path.join(tmp_dir1, "diff", *scopes)
DiffDir(root, stack) == PathJoin(<<root, <<"d", "i", "f", "f">> >> \o stack)

\* line 132: the trailing comma of the source makes diff_file a tuple
DiffFile(diff_dir, mat_name, fext) ==
    PyTuple1(PathJoin(diff_dir.val \o <<mat_name \o fext>>))

\* "or" in place of "and"
EitherExists(e1, e2) == e1 \/ e2

\* line 93: os.path.isfile(path1) and os.path.isfile(path2)
BothExist(e1, e2) == e1 /\ e2

\* lines 95-135
TryBlock(at, root1, stack, mat_name, fext, r1, r2) ==
    IF r1 = LoadFail THEN TryResult(TRUE, TRUE, FALSE, -1, "none", <<>>, {}, {})
    ELSE IF r2 = LoadFail THEN TryResult(TRUE, TRUE, TRUE, -1, "none", <<>>, {}, {})
    ELSE IF ~Broadcastable(Len(r1.v), Len(r2.v))
        THEN TryResult(TRUE, TRUE, TRUE, -1, "none", <<>>, {}, {})
    ELSE
        LET diff == AbsDiff(r1, r2)
            d == Norm1(diff)
            cls == Classify(d)
            diff_dir == DiffDir(root1, stack)
            diff_file == DiffFile(diff_dir, mat_name, fext)
        IN  IF cls = "green"
            THEN TryResult(FALSE, TRUE, TRUE, d, cls,
                    <<CompareLine(at, Len(stack), mat_name, cls, IdenticalFields)>>,
                    {}, {})
            ELSE IF FileStorageAccepts(diff_file)
            THEN TryResult(FALSE, TRUE, TRUE, d, cls,
                    <<CompareLine(at, Len(stack), mat_name, cls, DifferentFields)>>,
                    {diff_dir}, {diff_file})
            ELSE TryResult(TRUE, TRUE, TRUE, d, cls,
                    <<CompareLine(at, Len(stack), mat_name, cls, DifferentFields)>>,
                    {diff_dir}, {})

(***************************************************************************)
(* State of compare.                                                       *)
(***************************************************************************)
Root1 == <<"A">>
Root2 == <<"B">>

NoLast ==
    [at |-> 0, path1 |-> PathJoin(<<>>), path2 |-> PathJoin(<<>>),
     e1 |-> FALSE, e2 |-> FALSE, l1 |-> FALSE, l2 |-> FALSE,
     m1 |-> LoadFail, m2 |-> LoadFail, d |-> -1, cls |-> "none", raised |-> FALSE]

\* the manifests compare is run on: an extension line, then lines of these
ManifestLines == {<<"+", "g">>, <<"+", "h">>, <<"-">>, <<"a">>}
ManifestExtLine == <<".", "y", " ">>

Init ==
    /\ pc = "run"
    /\ \E ls \in SeqsUpTo(ManifestLines, MaxFlow) :
          /\ lines = <<ManifestExtLine>> \o ls
          /\ flow = ParseLines(ls)
    /\ ext = Strip(ManifestExtLine)
    /\ i = 1
    /\ scopes = <<>>
    /\ out = <<>>
    /\ dirs = {}
    /\ artifacts = {}
    /\ last = NoLast

Running == pc = "run" /\ i <= Len(flow)

\* ENTER_SCOPE that prints but does not push
EnterScopeNoPush ==
    /\ Running
    /\ flow[i].type = ENTER_SCOPE
    /\ out' = Append(out, ScopeLine(i, Len(scopes), flow[i].name))
    /\ i' = i + 1
    /\ UNCHANGED <<pc, lines, ext, flow, scopes, dirs, artifacts, last>>

\* ENTER_SCOPE that pushes before it prints
EnterScopePushFirst ==
    /\ Running
    /\ flow[i].type = ENTER_SCOPE
    /\ scopes' = Append(scopes, flow[i].name)
    /\ out' = Append(out, ScopeLine(i, Len(scopes'), flow[i].name))
    /\ i' = i + 1
    /\ UNCHANGED <<pc, lines, ext, flow, dirs, artifacts, last>>

\* lines 70-76
EnterScope ==
    /\ Running
    /\ flow[i].type = ENTER_SCOPE
    /\ out' = Append(out, ScopeLine(i, Len(scopes), flow[i].name))
    /\ scopes' = Append(scopes, flow[i].name)
    /\ i' = i + 1
    /\ UNCHANGED <<pc, lines, ext, flow, dirs, artifacts, last>>

\* EXIT_SCOPE that skips the pop of an empty stack and goes on
ExitScopeIgnoreEmpty ==
    /\ Running
    /\ flow[i].type = EXIT_SCOPE
    /\ scopes' = IF scopes = <<>> THEN scopes ELSE Front(scopes)
    /\ i' = i + 1
    /\ UNCHANGED <<pc, lines, ext, flow, out, dirs, artifacts, last>>

\* lines 77-79: list.pop() raises IndexError on an empty list, outside any try
ExitScope ==
    /\ Running
    /\ flow[i].type = EXIT_SCOPE
    /\ IF scopes = <<>>
       THEN /\ pc' = "raised"
            /\ UNCHANGED <<i, scopes>>
       ELSE /\ scopes' = Front(scopes)
            /\ i' = i + 1
            /\ pc' = pc
    /\ UNCHANGED <<lines, ext, flow, out, dirs, artifacts, last>>

\* lines 80-143, for given answers of the file system: e1, e2 tell whether
\* each file exists, r1, r2 what loading and flattening each file gives
SaveMatWith(e1, e2, r1, r2) ==
    LET mat_name == flow[i].name
        path1 == EntryPath(Root1, scopes, mat_name, ext)
        path2 == EntryPath(Root2, scopes, mat_name, ext)
        t == TryBlock(i, Root1, scopes, mat_name, ext, r1, r2)
    IN  IF BothExist(e1, e2)
        THEN /\ out' = out \o t.printed
                        \o (IF t.raised
                            THEN <<ErrorLine(i, RelPath(scopes, mat_name, ext))>>
                            ELSE <<>>)
             /\ dirs' = dirs \cup t.made
             /\ artifacts' = artifacts \cup t.written
             /\ last' = [at |-> i, path1 |-> path1, path2 |-> path2,
                         e1 |-> e1, e2 |-> e2, l1 |-> t.l1, l2 |-> t.l2,
                         m1 |-> r1, m2 |-> IF t.l2 THEN r2 ELSE LoadFail,
                         d |-> t.d, cls |-> t.cls, raised |-> t.raised]
        ELSE /\ out' = Append(out, MissingLine(i, path1, path2))
             /\ last' = [at |-> i, path1 |-> path1, path2 |-> path2,
                         e1 |-> e1, e2 |-> e2, l1 |-> FALSE, l2 |-> FALSE,
                         m1 |-> LoadFail, m2 |-> LoadFail,
                         d |-> -1, cls |-> "none", raised |-> FALSE]
             /\ UNCHANGED <<dirs, artifacts>>

SaveMat ==
    /\ Running
    /\ flow[i].type = SAVE_MAT
    /\ \E e1, e2 \in BOOLEAN :
          IF BothExist(e1, e2)
          THEN \E r1 \in LoadResults1, r2 \in LoadResults2 : SaveMatWith(e1, e2, r1, r2)
          ELSE SaveMatWith(e1, e2, LoadFail, LoadFail)
    /\ i' = i + 1
    /\ UNCHANGED <<pc, lines, ext, flow, scopes>>

\* line 66: the for loop is exhausted and compare returns
Return ==
    /\ pc = "run"
    /\ i > Len(flow)
    /\ pc' = "done"
    /\ UNCHANGED <<lines, ext, flow, i, scopes, out, dirs, artifacts, last>>

Next == EnterScope \/ ExitScope \/ SaveMat \/ Return

(***************************************************************************)
(* MatList.__init__, one line of lists.txt at a time.                      *)
(***************************************************************************)
ParseInit ==
    /\ pc = "open"
    /\ lines = <<>>
    /\ ext = <<>>
    /\ flow = <<>>
    /\ i = 1
    /\ scopes = <<>>
    /\ out = <<>>
    /\ dirs = {}
    /\ artifacts = {}
    /\ last = NoLast

\* line 37: file.readline().strip(); readline gives "" on an empty file
ReadExt ==
    /\ pc = "open"
    /\ \E line \in ExtLines :
          /\ lines' = <<line>>
          /\ ext' = Strip(line)
    /\ pc' = "lines"
    /\ UNCHANGED <<flow, i, scopes, out, dirs, artifacts, last>>

\* lines 40-55: one iteration of the loop over the remaining lines
ReadLine ==
    /\ pc = "lines"
    /\ Len(lines) <= MaxLines
    /\ \E line \in FileLines :
          /\ lines' = Append(lines, line)
          /\ flow' = flow \o ParseLine(line)
    /\ UNCHANGED <<pc, ext, i, scopes, out, dirs, artifacts, last>>

\* end of file: the loop and the constructor end
EndOfFile ==
    /\ pc = "lines"
    /\ pc' = "parsed"
    /\ UNCHANGED <<lines, ext, flow, i, scopes, out, dirs, artifacts, last>>

ParseNext == ReadExt \/ ReadLine \/ EndOfFile

ParseSpec == ParseInit /\ [][ParseNext]_vars

Spec == Init /\ [][Next]_vars

\* the same replay on manifests of at most MaxTermFlow lines; the for loop
\* of compare always goes on to its next iteration
TermInit == Init /\ Len(flow) <= MaxTermFlow

TermSpec == TermInit /\ [][Next]_vars /\ WF_vars(Next)


(***************************************************************************)
(* Properties.                                                             *)
(***************************************************************************)
\* the state right after a SAVE_MAT action: last describes it and scopes is
\* the stack it ran with
JustSaved == last.at > 0 /\ last.at = i - 1

\* the positions in out of the lines that action k printed
LinesOf(k) == {j \in 1..Len(out) : out[j].at = k}

\* a step that replays a SAVE_MAT action
IsSaveStep ==
    /\ pc = "run"
    /\ i <= Len(flow)
    /\ flow[i].type = SAVE_MAT
    /\ last'.at = i

StrOf(parts) == [type |-> "str", val |-> parts]

DiffComponent == <<"d", "i", "f", "f">>

\* C1: after a SAVE_MAT action whose two files exist, the file
\* join(rootA, "diff", scopes..., name + ext) has been written if and only if
\* the comparison was classified Minor or Major; never for Identical.
C1_ArtifactIffDifferent ==
    (JustSaved /\ last.e1 /\ last.e2) =>
        LET file == StrOf(<<Root1, DiffComponent>> \o scopes
                          \o <<flow[last.at].name \o ext>>)
        IN  (file \in artifacts) <=> (last.cls \in {"yellow", "red"})

\* C2: when compare has returned, every SAVE_MAT action has printed exactly
\* one line (comparison, missing-file or error diagnostic), every ENTER_SCOPE
\* action exactly one scope line, and the lines are in manifest order.
C2_OneLinePerEntry ==
    pc = "done" =>
        /\ \A k \in 1..Len(flow) :
              /\ flow[k].type = SAVE_MAT =>
                    \E j \in 1..Len(out) :
                        /\ LinesOf(k) = {j}
                        /\ out[j].kind \in {"compare", "missing", "error"}
              /\ flow[k].type = ENTER_SCOPE =>
                    \E j \in 1..Len(out) :
                        /\ LinesOf(k) = {j}
                        /\ out[j].kind = "scope"
        /\ \A j1, j2 \in 1..Len(out) : j1 < j2 => out[j1].at < out[j2].at

\* C3: a SAVE_MAT step whose two files exist and in which loading, flattening,
\* computing or writing raises ends with an error line that carries the
\* relative path scopes + name + ext, leaves the scope stack as it was and
\* goes on to the next action of the flow.
C3_FailureIsCaught ==
    [][(IsSaveStep /\ last'.e1 /\ last'.e2 /\ last'.raised) =>
        /\ Len(out') > Len(out)
        /\ out'[Len(out')].kind = "error"
        /\ out'[Len(out')].at = i
        /\ out'[Len(out')].paths = <<StrOf(scopes \o <<flow[i].name \o ext>>)>>
        /\ SubSeq(out', 1, Len(out)) = out
        /\ scopes' = scopes
        /\ pc' = "run"
        /\ i' = i + 1
        /\ flow' = flow]_vars

\* a later action was replayed after a failure of each kind: a load that
\* raises, shapes that do not broadcast, a write that raises
C3_Witness ==
    /\ last.e1 /\ last.e2 /\ last.raised
    /\ last.cls \in {"yellow", "red"}
    /\ i > last.at + 1
    /\ \E j \in 1..Len(out) : out[j].kind = "error" /\ out[j].at < last.at
    /\ scopes # <<>>

\* C4: after a SAVE_MAT action whose two files exist and hold arrays of
\* different element counts, the only line of the action is an error line
\* naming the relative path, no artifact exists for it, the error was raised
\* before any classification, and the replay was not aborted.
C4_MismatchIsError ==
    (/\ JustSaved /\ last.e1 /\ last.e2 /\ last.l1 /\ last.l2
     /\ last.m1 # LoadFail /\ last.m2 # LoadFail
     /\ Len(last.m1.v) # Len(last.m2.v)) =>
        /\ last.raised
        /\ last.cls = "none"
        /\ \E j \in 1..Len(out) :
              /\ LinesOf(last.at) = {j}
              /\ out[j].kind = "error"
              /\ out[j].paths = <<StrOf(scopes \o <<flow[last.at].name \o ext>>)>>
        /\ StrOf(<<Root1, DiffComponent>> \o scopes
                 \o <<flow[last.at].name \o ext>>) \notin artifacts
        /\ pc # "raised"

\* sum over k of |B[k] - A[k]| for two arrays of the same length
Distance(a, b) == Sum([k \in 1..Len(a) |-> Abs(b[k] - a[k])])

\* C5: for a compared entry, with distance the sum of |B[k] - A[k]|, the
\* line is Identical exactly when distance < 0.001, Minor exactly when
\* 0.001 <= distance < 10.0 and Major exactly when distance >= 10.0; the
\* Identical line carries name and distance only, the others the five
\* statistics too.
C5_Classification ==
    (/\ last.at > 0 /\ last.cls # "none"
     /\ Len(last.m1.v) = Len(last.m2.v)) =>
        LET dist == Distance(last.m1.v, last.m2.v)
        IN  /\ last.cls = "green" <=> dist < IdenticalThreshold
            /\ last.cls = "yellow" <=>
                  (IdenticalThreshold <= dist /\ dist < MajorThreshold)
            /\ last.cls = "red" <=> dist >= MajorThreshold
            /\ \E j \in LinesOf(last.at) :
                  /\ out[j].kind = "compare"
                  /\ out[j].color = last.cls
                  /\ out[j].fields =
                        IF last.cls = "green"
                        THEN {"name", "d"}
                        ELSE {"name", "d", "min", "max", "avg", "median", "std"}

\* a step that replays an EXIT_SCOPE action on an empty stack
Underflow ==
    /\ pc = "run"
    /\ i <= Len(flow)
    /\ flow[i].type = EXIT_SCOPE
    /\ scopes = <<>>

\* C6: an EXIT_SCOPE action replayed on an empty stack raises out of compare:
\* nothing is printed or written by that step and nothing happens after it.
C6_UnderflowIsFatal ==
    [][/\ Underflow =>
            /\ pc' = "raised"
            /\ UNCHANGED <<flow, i, scopes, out, dirs, artifacts, last>>
       /\ pc = "raised" => UNCHANGED vars]_vars

\* compare has raised on an EXIT_SCOPE that later actions follow, after it
\* printed something
C6_Witness ==
    /\ pc = "raised"
    /\ flow[i].type = EXIT_SCOPE
    /\ i < Len(flow)
    /\ out # <<>>

EntersIn(a, b) == Cardinality({q \in a..b : flow[q].type = ENTER_SCOPE})
ExitsIn(a, b) == Cardinality({q \in a..b : flow[q].type = EXIT_SCOPE})

\* in every prefix of the flow there are at most as many exits as enters
BalancedFlow == \A n \in 1..Len(flow) : ExitsIn(1, n) <= EntersIn(1, n)

\* C7: on a manifest in which no prefix has more EXIT_SCOPE than ENTER_SCOPE,
\* compare goes through every action and returns; it never raises on the
\* scope stack, whatever the outcome of each entry.
C7_BalancedTerminates ==
    BalancedFlow => (<>(pc = "done" /\ i = Len(flow) + 1) /\ [](pc # "raised"))

\* compare returned on a balanced manifest that closes a scope and on one
\* whose entry failed
C7_Witness ==
    /\ pc = "done"
    /\ BalancedFlow
    /\ \/ \E k \in 1..Len(flow) : flow[k].type = EXIT_SCOPE
       \/ last.raised

\* C8: a SAVE_MAT step for which a file is absent under the first root, the
\* second, or both prints one missing-file line naming both paths, loads
\* nothing, writes nothing, leaves the stack as it was and goes on to the
\* next action.
C8_MissingIsSkipped ==
    [][(IsSaveStep /\ ~(last'.e1 /\ last'.e2)) =>
        /\ Len(out') = Len(out) + 1
        /\ SubSeq(out', 1, Len(out)) = out
        /\ out'[Len(out')].kind = "missing"
        /\ out'[Len(out')].at = i
        /\ out'[Len(out')].paths =
              <<StrOf(<<Root1>> \o scopes \o <<flow[i].name \o ext>>),
                StrOf(<<Root2>> \o scopes \o <<flow[i].name \o ext>>)>>
        /\ ~last'.l1 /\ ~last'.l2
        /\ UNCHANGED <<flow, scopes, dirs, artifacts>>
        /\ pc' = "run"
        /\ i' = i + 1]_vars

\* inside a scope, the file was missing under the second root only, and the
\* replay went on to a later action
C8_Witness ==
    /\ last.at > 0
    /\ last.e1 /\ ~last.e2
    /\ i > last.at + 1
    /\ \E j \in LinesOf(last.at) : Len(out[j].paths[1].val) > 2

\* the ENTER_SCOPE positions of the first n actions that no EXIT_SCOPE of
\* the first n actions closes
OpenAt(n) ==
    {p \in 1..n :
        /\ flow[p].type = ENTER_SCOPE
        /\ \A q \in (p + 1)..n : ExitsIn(p + 1, q) <= EntersIn(p + 1, q)}

\* their names, in the order they were entered
StackAfter(n) ==
    LET S == OpenAt(n)
    IN  [r \in 1..Cardinality(S) |->
            flow[CHOOSE p \in S : Cardinality({q \in S : q <= p}) = r].name]

\* what C10 says of the stack, of the scope lines and of the paths
StackAndPaths ==
    /\ scopes = StackAfter(i - 1)
    /\ \A j \in 1..Len(out) :
          out[j].kind = "scope" => out[j].depth = Len(StackAfter(out[j].at - 1))
    /\ last.at > 0 =>
          /\ last.path1 = StrOf(<<Root1>> \o StackAfter(last.at - 1)
                                \o <<flow[last.at].name \o ext>>)
          /\ last.path2 = StrOf(<<Root2>> \o StackAfter(last.at - 1)
                                \o <<flow[last.at].name \o ext>>)
          /\ StackAfter(last.at) = StackAfter(last.at - 1)

\* C10 as stated: the stack is the names of the entered and not yet exited
\* scopes in order, ENTER_SCOPE prints at the depth of the stack before its
\* push, SAVE_MAT builds its paths from root, stack and name + ext, and every
\* line SAVE_MAT prints is at the depth of the stack.
C10_StackAndIndentation ==
    /\ StackAndPaths
    /\ \A j \in 1..Len(out) :
          flow[out[j].at].type = SAVE_MAT =>
              out[j].depth = Len(StackAfter(out[j].at - 1))

\* C10 amended: as above, but of the lines SAVE_MAT prints only the
\* comparison line is at the depth of the stack; the missing-file and the
\* error lines start at column 0.
C10_StackAndComparisonIndentation ==
    /\ StackAndPaths
    /\ \A j \in 1..Len(out) :
          flow[out[j].at].type = SAVE_MAT =>
              out[j].depth = IF out[j].kind = "compare"
                             THEN Len(StackAfter(out[j].at - 1))
                             ELSE 0

\* two nested scopes with different names, a comparison line printed inside
C10_Witness ==
    /\ Len(scopes) = 2
    /\ scopes[1] # scopes[2]
    /\ JustSaved
    /\ last.cls = "green"
    /\ out[Len(out)].depth = 2

(***************************************************************************)
(* Properties of the parser, stated on the lines read so far.              *)
(***************************************************************************)
\* t is s without the whitespace at its two ends
IsTrimOf(t, s) ==
    \E a \in 1..(Len(s) + 1), b \in 0..Len(s) :
        /\ t = SubSeq(s, a, b)
        /\ \A k \in 1..Len(s) : (k < a \/ k > b) => s[k] = " "
        /\ t # <<>> => (t[1] # " " /\ t[Len(t)] # " ")

IsBlank(s) == \A k \in 1..Len(s) : s[k] = " "

\* the positions in lines, after the first line, of the lines that are not blank
NonBlank == {k \in 2..Len(lines) : ~IsBlank(lines[k])}

\* the r-th of them
NonBlankAt(r) == CHOOSE k \in NonBlank : Cardinality({q \in NonBlank : q <= k}) = r

\* action a is what the non-blank line s stands for
ActionOf(a, s) ==
    \E t \in {SubSeq(s, x, y) : x \in 1..Len(s), y \in 1..Len(s)} :
        /\ IsTrimOf(t, s)
        /\ IF t[1] = "-" THEN a = [type |-> EXIT_SCOPE]
           ELSE IF t[1] = "+"
                THEN /\ DOMAIN a = {"type", "name"}
                     /\ a.type = ENTER_SCOPE
                     /\ IsTrimOf(a.name, SubSeq(t, 2, Len(t)))
                ELSE a = [type |-> SAVE_MAT, name |-> t]

\* C9: the extension is the trimmed first line; self.flow has one action per
\* non-blank later line, in file order: EXIT_SCOPE for a line that starts
\* with '-', ENTER_SCOPE named by the trimmed remainder for one that starts
\* with '+', SAVE_MAT named by the trimmed line otherwise; the constructor
\* never fails on the balance of the scopes.
C9_ParseLines ==
    /\ pc # "open" => IsTrimOf(ext, lines[1])
    /\ Len(flow) = Cardinality(NonBlank)
    /\ \A r \in 1..Len(flow) : ActionOf(flow[r], lines[NonBlankAt(r)])
    /\ pc \in {"open", "lines", "parsed"}

\* the constructor returned on a file that has a padded extension line, a
\* blank line and an ENTER_SCOPE line whose name follows a space
C9_Witness ==
    /\ pc = "parsed"
    /\ ext = <<".", "y">>
    /\ lines[1] = <<" ", ".", "y", " ">>
    /\ Len(lines) = 3
    /\ IsBlank(lines[2])
    /\ lines[3] = <<" ", "+", " ", "a", " ">>
    /\ flow = <<[type |-> ENTER_SCOPE, name |-> <<"a">>]>>
====
